---- MODULE Spec2Model ----
(***************************************************************************)
(* A model of py_validator.validate (src/py_validator.py).                 *)
(*                                                                         *)
(* Python objects (data and scheme alike) are records of one shape:        *)
(*   t     the kind of the object ("none", "bool", "int", "float", "str",  *)
(*         "list", "tuple", "set", "dict", "type", "Or", "And", "ListOf",  *)
(*         "func", "exc")                                                  *)
(*   n     the number held by a bool/int/float, the index of a function    *)
(*   s     the text of a str, the __name__ of a type, the text of an exc   *)
(*   items the elements of a list/tuple/set (in iteration order), the      *)
(*         values of a dict, the choices of Or/And, the check of ListOf    *)
(*   keys  the keys of a dict, aligned with items; opt marks Optional(k)   *)
(***************************************************************************)
EXTENDS Integers, Sequences, FiniteSets, TLC

VARIABLES given, expected, ignore_extra_keys, pc, output, errors, raised,
          report, trace, invoked, prev

vars == <<given, expected, ignore_extra_keys, pc, output, errors, raised,
          report, trace, invoked, prev>>

\* Bounds of the enumerated inputs.
MaxInt == 2
MaxLen == 3

----------------------------------------------------------------------------
\* Python objects

Mk(t, n, s, items, keys) == [t |-> t, n |-> n, s |-> s, items |-> items, keys |-> keys]

None_ == Mk("none", 0, "", <<>>, <<>>)

BoolV(b) == Mk("bool", IF b THEN 1 ELSE 0, "", <<>>, <<>>)

IntV(i) == Mk("int", i, "", <<>>, <<>>)

FloatV(i) == Mk("float", i, "", <<>>, <<>>)

StrV(s) == Mk("str", 0, s, <<>>, <<>>)

List(xs) == Mk("list", 0, "", xs, <<>>)

Tuple(xs) == Mk("tuple", 0, "", xs, <<>>)

SetOf(xs) == Mk("set", 0, "", xs, <<>>)

Key(k) == [k |-> k, opt |-> FALSE]

Dict(ks, xs) == Mk("dict", 0, "", xs, ks)

Type(name) == Mk("type", 0, name, <<>>, <<>>)

Exc(text) == Mk("exc", 0, text, <<>>, <<>>)

Or(choice) == Mk("Or", 0, "", choice, <<>>)

And(choice) == Mk("And", 0, "", choice, <<>>)

ListOf(check) == Mk("ListOf", 0, "", <<check>>, <<>>)

Optional(k) == [k |-> k, opt |-> TRUE]

Func(i) == Mk("func", i, "", <<>>, <<>>)

\* ForceValue(value), Error(message) and any other object a function returns
ForceValue(v) == [k |-> "ForceValue", v |-> v, msg |-> ""]

Error(message) == [k |-> "Error", v |-> None_, msg |-> message]

Plain(v) == [k |-> "plain", v |-> v, msg |-> ""]

----------------------------------------------------------------------------
\* Python built-ins used by validate

IsNum(x) == x.t \in {"bool", "int", "float"}

\* type(x).__name__
TypeName(x) == IF x.t = "none" THEN "NoneType" ELSE x.t

Digit(d) == <<"0", "1", "2", "3", "4", "5", "6", "7", "8", "9">>[d + 1]

RECURSIVE NatToStr(_)
NatToStr(i) == IF i < 10 THEN Digit(i) ELSE NatToStr(i \div 10) \o Digit(i % 10)

\* '%d' % i
IntToStr(i) == IF i < 0 THEN "-" \o NatToStr(-i) ELSE NatToStr(i)

\* '%s' % x for the objects that reach the last branch of sub
PyStr(x) ==
    CASE x.t = "none"  -> "None"
      [] x.t = "bool"  -> IF x.n = 1 THEN "True" ELSE "False"
      [] x.t = "int"   -> IntToStr(x.n)
      [] x.t = "float" -> IntToStr(x.n) \o ".0"
      [] x.t = "str"   -> x.s
      [] OTHER         -> "<" \o x.t \o ">"

\* bool(x)
Truthy(x) ==
    CASE x.t = "none" -> FALSE
      [] IsNum(x)     -> x.n # 0
      [] x.t = "str"  -> x.s # ""
      [] x.t \in {"list", "tuple", "set", "dict"} -> Len(x.items) > 0
      [] OTHER        -> TRUE

\* k in d, d[k] and d[k] = v for a dict d
HasKey(d, k) == \E i \in 1..Len(d.keys) : d.keys[i].k = k /\ ~d.keys[i].opt

KeyIndex(d, k) == CHOOSE i \in 1..Len(d.keys) : d.keys[i].k = k /\ ~d.keys[i].opt

GetItem(d, k) == d.items[KeyIndex(d, k)]

SetItem(d, k, v) ==
    IF HasKey(d, k)
    THEN Dict(d.keys, [d.items EXCEPT ![KeyIndex(d, k)] = v])
    ELSE Dict(Append(d.keys, Key(k)), Append(d.items, v))

\* x == y.  Numbers compare by value whatever their type, lists and tuples
\* element by element, sets and dicts whatever the order; a schema-only
\* object (Or, And, ListOf, function, Optional key) equals only itself,
\* and the data never holds one.
RECURSIVE PyEq(_, _)
PyEq(x, y) ==
    CASE IsNum(x) -> IsNum(y) /\ x.n = y.n
      [] x.t \in {"none", "str", "type"} -> y.t = x.t /\ y.s = x.s
      [] x.t \in {"list", "tuple"} ->
            /\ y.t = x.t
            /\ Len(y.items) = Len(x.items)
            /\ \A i \in 1..Len(x.items) : PyEq(x.items[i], y.items[i])
      [] x.t = "set" ->
            /\ y.t = "set"
            /\ \A i \in 1..Len(x.items) : \E j \in 1..Len(y.items) : PyEq(x.items[i], y.items[j])
            /\ \A j \in 1..Len(y.items) : \E i \in 1..Len(x.items) : PyEq(x.items[i], y.items[j])
      [] x.t = "dict" ->
            /\ y.t = "dict"
            /\ \A i \in 1..Len(x.keys) : ~x.keys[i].opt /\ HasKey(y, x.keys[i].k)
            /\ \A j \in 1..Len(y.keys) : ~y.keys[j].opt /\ HasKey(x, y.keys[j].k)
            /\ \A i \in 1..Len(x.keys) : PyEq(x.items[i], GetItem(y, x.keys[i].k))
      [] OTHER -> FALSE

\* hash(x) succeeds
RECURSIVE Hashable(_)
Hashable(x) ==
    CASE x.t \in {"list", "set", "dict"} -> FALSE
      [] x.t = "tuple" -> \A i \in 1..Len(x.items) : Hashable(x.items[i])
      [] OTHER -> TRUE

\* needle in haystack, for two strings
Contains(haystack, needle) ==
    \E i \in 1..(Len(haystack) - Len(needle) + 1) :
        SubSeq(haystack, i, i + Len(needle) - 1) = needle

\* iter(x) succeeds
Iterable(x) == x.t \in {"list", "tuple", "set", "str", "dict"}

\* the elements enumerate(x) yields
Iter(x) ==
    CASE x.t = "str"  -> [i \in 1..Len(x.s) |-> StrV(SubSeq(x.s, i, i))]
      [] x.t = "dict" -> [i \in 1..Len(x.keys) |-> StrV(x.keys[i].k)]
      [] OTHER        -> x.items

----------------------------------------------------------------------------
\* The functions used as checks: those of _code_sample, and functions that
\* return one fixed object whatever they are given.
\*   name, nb: what funcInfo returns for the function
\*   kind    : the body of the function; ret is what a "const" one returns

Fn(name, nb, kind, ret) == [name |-> name, nb |-> nb, kind |-> kind, ret |-> ret]

Funcs == <<
    Fn("<lambda>",   1, "const",      Plain(BoolV(TRUE))),     \* check_presence
    Fn("<lambda>",   1, "double",     Plain(None_)),           \* lambda n : ForceValue( n*2 )
    Fn("<lambda>",   1, "positive",   Plain(None_)),           \* True if n > 0 else Error(...)
    Fn("check",      2, "check",      Plain(None_)),
    Fn("check_year", 1, "check_year", Plain(None_)),
    Fn("<lambda>",   1, "const",      Plain(BoolV(FALSE))),
    Fn("<lambda>",   1, "const",      Plain(None_)),
    Fn("<lambda>",   1, "const",      Plain(IntV(0))),
    Fn("<lambda>",   1, "const",      Plain(StrV("x"))),
    Fn("<lambda>",   1, "const",      Plain(List(<<>>))),
    Fn("<lambda>",   1, "const",      ForceValue(IntV(7))),
    Fn("<lambda>",   2, "const",      ForceValue(None_)),
    Fn("<lambda>",   1, "const",      Error("bad")),
    Fn("<lambda>",   2, "const",      Plain(IntV(1))),
    Fn("<lambda>",   0, "const",      Plain(BoolV(TRUE))),
    Fn("<lambda>",   3, "const",      Plain(BoolV(TRUE))) >>

check_presence == 1
double         == 2
positive       == 3
check          == 4
check_year     == 5

\* funcInfo(f)
funcInfo(f) == [nb |-> Funcs[f.n].nb, name |-> Funcs[f.n].name]

Returned(ret) == [raised |-> FALSE, e |-> "", ret |-> ret]

Raised(e) == [raised |-> TRUE, e |-> e, ret |-> Plain(None_)]

\* the TypeError of a comparison or product Python does not define
NotSupported(op, l, r) ==
    Raised("'" \o op \o "' not supported between instances of '" \o l \o "' and '" \o r \o "'")

Unsupported(op, l, r) ==
    Raised("unsupported operand type(s) for " \o op \o ": '" \o l \o "' and '" \o r \o "'")

\* exp( obj ) or exp( path,obj ): what the call returns, or what it raises
Call(f, path, obj) ==
    LET kind == Funcs[f.n].kind IN
    CASE kind = "const" -> Returned(Funcs[f.n].ret)
      [] kind = "double" ->
            CASE IsNum(obj) ->
                    Returned(ForceValue(IF obj.t = "float" THEN FloatV(obj.n * 2) ELSE IntV(obj.n * 2)))
              [] obj.t = "str" -> Returned(ForceValue(StrV(obj.s \o obj.s)))
              [] obj.t \in {"list", "tuple"} ->
                    Returned(ForceValue(Mk(obj.t, 0, "", obj.items \o obj.items, <<>>)))
              [] OTHER -> Unsupported("*", TypeName(obj), "int")
      [] kind = "positive" ->
            IF ~IsNum(obj) THEN NotSupported(">", TypeName(obj), "int")
            ELSE IF obj.n > 0 THEN Returned(Plain(BoolV(TRUE)))
            ELSE Returned(Error("an age is always positive!"))
      [] kind = "check" ->
            IF Contains(path, "year") /\ ~IsNum(obj) THEN NotSupported(">", TypeName(obj), "int")
            ELSE IF Contains(path, "year") /\ obj.n > 2030 THEN Returned(Error("invalid year"))
            ELSE IF Contains(path, "age") /\ ~IsNum(obj) THEN NotSupported("<", TypeName(obj), "int")
            ELSE IF Contains(path, "age") /\ obj.n < 0 THEN Returned(Error("age must be positive"))
            ELSE Returned(Plain(BoolV(TRUE)))
      [] kind = "check_year" ->
            IF ~IsNum(obj) THEN NotSupported("<", "int", TypeName(obj))
            ELSE Returned(Plain(BoolV(1850 < obj.n /\ obj.n < 2023)))

----------------------------------------------------------------------------
\* validate.sub

\* an entry of report: a pair (path, message) or a triple (path, message, value)
Diag2(path, msg) == [path |-> path, msg |-> msg, n |-> 2, val |-> None_]

Diag3(path, msg, val) == [path |-> path, msg |-> msg, n |-> 3, val |-> val]

\* What a call of sub leaves behind: the object it returns, the entries it
\* appended to report, the calls of sub made (itself first, then the nested
\* ones in order), and the calls of check functions made, in order.
Res(obj, rep, tr, inv) == [obj |-> obj, rep |-> rep, tr |-> tr, inv |-> inv]

\* One call of sub.  id is the position of the call in the tree of calls:
\* <<>> for the call validate makes, id \o <<i>> for the i-th nested call
\* (choice, element or field) of the call id.
Entry(id, path, obj, exp, out, rep) ==
    [id |-> id, path |-> path, obj |-> obj, exp |-> exp, out |-> out, rep |-> rep]

isDict(x) == x.t = "dict"

isFunc(x) == x.t = "func"

isList(x) == x.t \in {"list", "tuple", "set"}

isListOf(x) == x.t = "ListOf"

isType(x) == x.t = "type"

isAnd(x) == x.t = "And"

isOr(x) == x.t = "Or"

RECURSIVE sub(_, _, _, _)
RECURSIVE OrLoop(_, _, _, _, _)
RECURSIVE AndLoop(_, _, _, _, _)
RECURSIVE Elements(_, _, _, _, _)
RECURSIVE Fields(_, _, _, _, _)

\* report2 and obj2 as a loop over choices leaves them, with the calls made
Loop(report2, obj2, tr, inv) == [report2 |-> report2, obj2 |-> obj2, tr |-> tr, inv |-> inv]

\* the loop went on after the choice that returned r, and ended as rest
Continued(r, rest) == Loop(rest.report2, rest.obj2, r.tr \o rest.tr, r.inv \o rest.inv)

\* "if report2 : report.extend( report2 ) else : obj = obj2", after a loop
AfterLoop(l, obj) ==
    IF Len(l.report2) > 0 THEN Res(obj, l.report2, l.tr, l.inv)
    ELSE Res(l.obj2, <<>>, l.tr, l.inv)

\* the Or loop written with the test of the And loop
OrBreak_AsAnd(report2) == Len(report2) > 0

\* "if not report2 : break" of the Or loop
OrBreak(report2) == Len(report2) = 0

\* the Or loop after choice i returned r
OrStep(r, obj, exp, path, id, i) ==
    IF OrBreak(r.rep) \/ i = Len(exp.items)
    THEN Loop(r.rep, r.obj, r.tr, r.inv)
    ELSE Continued(r, OrLoop(obj, exp, path, id, i + 1))

\* The Or loop from choice i on: report2 and obj2 as the loop leaves them.
OrLoop(obj, exp, path, id, i) ==
    OrStep(sub(obj, exp.items[i], path, id \o <<i>>), obj, exp, path, id, i)

sub_Or(obj, exp, path, id) == AfterLoop(OrLoop(obj, exp, path, id, 1), obj)

\* the And loop without its break
AndBreak_Never(report2) == FALSE

\* "if report2 : break" of the And loop
AndBreak(report2) == Len(report2) > 0

\* the And loop after choice i returned r
AndStep(r, obj, exp, path, id, i) ==
    IF AndBreak(r.rep) \/ i = Len(exp.items)
    THEN Loop(r.rep, r.obj, r.tr, r.inv)
    ELSE Continued(r, AndLoop(obj, exp, path, id, i + 1))

\* The And loop from choice i on.  Every choice is given obj, the object
\* the And itself was given: the loop assigns obj2, never obj.
AndLoop(obj, exp, path, id, i) ==
    AndStep(sub(obj, exp.items[i], path, id \o <<i>>), obj, exp, path, id, i)

sub_And(obj, exp, path, id) == AfterLoop(AndLoop(obj, exp, path, id, 1), obj)

\* path+'[%d]'%i
IndexPath(path, i) == path \o "[" \o IntToStr(i) \o "]"

\* the elements matched so far, and one more whose match returned r
OneMore(before, r) ==
    Res(Append(before.obj, r.obj), before.rep \o r.rep, before.tr \o r.tr, before.inv \o r.inv)

\* [sub( o,e,report,path+'[%d]'%i ) for i,(o,e) in ...], elements 1..k of
\* os against the descriptors es (numbered from 0 in the path)
Elements(os, es, path, id, k) ==
    IF k = 0 THEN Res(<<>>, <<>>, <<>>, <<>>)
    ELSE OneMore(Elements(os, es, path, id, k - 1),
                 sub(os[k], es[k], IndexPath(path, k - 1), id \o <<k>>))

\* "obj = [...]": the list of what the calls of sub returned
Rebuilt(r) == Res(List(r.obj), r.rep, r.tr, r.inv)

sub_list(obj, exp, path, id) ==
    IF ~isList(obj)
    THEN Res(obj, <<Diag3(path, "array expected", obj)>>, <<>>, <<>>)
    ELSE IF Len(exp.items) # Len(obj.items)
    THEN Res(obj, <<Diag3(path, "length is " \o IntToStr(Len(obj.items))
                                 \o " but should be " \o IntToStr(Len(exp.items)), obj)>>,
             <<>>, <<>>)
    ELSE Rebuilt(Elements(obj.items, exp.items, path, id, Len(exp.items)))

\* enumerate( obj ) raises TypeError when obj is not iterable; the except
\* clause of sub reports it.  Nothing else in this branch tests obj.
sub_ListOf(obj, exp, path, id) ==
    IF ~Iterable(obj)
    THEN Res(obj, <<Diag3(path, "failure",
                          Exc("'" \o TypeName(obj) \o "' object is not iterable"))>>, <<>>, <<>>)
    ELSE Rebuilt(Elements(Iter(obj), [i \in 1..Len(Iter(obj)) |-> exp.items[1]],
                          path, id, Len(Iter(obj))))

\* the missing key reported at the path the field would have had
NotFound_FieldPath(path, key, mandatory) ==
    IF mandatory THEN <<Diag3(path \o "." \o key, "not found", StrV(key))>> ELSE <<>>

\* "elif mandatory : report.append( (path,'not found',key))"
NotFound(path, key, mandatory) ==
    IF mandatory THEN <<Diag3(path, "not found", StrV(key))>> ELSE <<>>

\* an absent Optional key stored as None
Absent_StoresNone(obj2, key, mandatory) ==
    IF mandatory THEN obj2 ELSE SetItem(obj2, key, None_)

\* obj2 after a schema key that obj does not hold: nothing is stored
Absent(obj2, key, mandatory) == obj2

\* "obj2[key] = sub( obj[key],expv,report,path+'.'+key )", r being what
\* that call of sub returned
Present(before, key, r) ==
    [keys |-> Append(before.keys, key), obj2 |-> SetItem(before.obj2, key, r.obj),
     rep |-> before.rep \o r.rep, tr |-> before.tr \o r.tr, inv |-> before.inv \o r.inv]

\* one turn of the loop, for field k of exp, before being what the turns
\* for the fields 1..k-1 left
Field(before, obj, exp, path, id, k) ==
    LET key       == exp.keys[k].k
        mandatory == ~exp.keys[k].opt
    IN  IF HasKey(obj, key)
        THEN Present(before, key,
                     sub(GetItem(obj, key), exp.items[k], path \o "." \o key, id \o <<k>>))
        ELSE [keys |-> Append(before.keys, key),
              obj2 |-> Absent(before.obj2, key, mandatory),
              rep |-> before.rep \o NotFound(path, key, mandatory),
              tr |-> before.tr, inv |-> before.inv]

\* "for expk,expv in exp.items()", fields 1..k of exp: keys, obj2 and the
\* report as the loop leaves them
Fields(obj, exp, path, id, k) ==
    IF k = 0 THEN [keys |-> <<>>, obj2 |-> Dict(<<>>, <<>>), rep |-> <<>>, tr |-> <<>>, inv |-> <<>>]
    ELSE Field(Fields(obj, exp, path, id, k - 1), obj, exp, path, id, k)

\* extra = set( obj.keys()) - set( keys ), here in the order obj holds them
\* (the order Python iterates a set in shows neither in set( report ) nor in
\* the comparison of two dicts)
Extra(obj, keys) ==
    SelectSeq([i \in 1..Len(obj.keys) |-> obj.keys[i].k],
              LAMBDA k : \A j \in 1..Len(keys) : keys[j] # k)

RECURSIVE CopyExtra(_, _, _, _)
CopyExtra(obj, obj2, extra, k) ==
    IF k = 0 THEN obj2
    ELSE SetItem(CopyExtra(obj, obj2, extra, k - 1), extra[k], GetItem(obj, extra[k]))

\* the extra keys copied whatever the policy
ExtraKeys_AlwaysCopy(obj, obj2, extra, path) ==
    [obj2 |-> CopyExtra(obj, obj2, extra, Len(extra)),
     rep  |-> IF ignore_extra_keys THEN <<>>
              ELSE [i \in 1..Len(extra) |-> Diag3(path, "extra key", StrV(extra[i]))]]

\* "if extra : ...": obj2 and the entries added to report
ExtraKeys(obj, obj2, extra, path) ==
    IF ignore_extra_keys
    THEN [obj2 |-> CopyExtra(obj, obj2, extra, Len(extra)), rep |-> <<>>]
    ELSE [obj2 |-> obj2,
          rep  |-> [i \in 1..Len(extra) |-> Diag3(path, "extra key", StrV(extra[i]))]]

\* lines 323 to 330, f being what the loop over the fields left
WithExtra(f, x) == Res(x.obj2, f.rep \o x.rep, f.tr, f.inv)

AfterFields(f, obj, path) == WithExtra(f, ExtraKeys(obj, f.obj2, Extra(obj, f.keys), path))

sub_dict(obj, exp, path, id) ==
    IF ~isDict(obj)
    THEN Res(obj, <<Diag3(path, "dictionary expected", obj)>>, <<>>, <<>>)
    ELSE AfterFields(Fields(obj, exp, path, id, Len(exp.keys)), obj, path)

\* an Error taken for any other object: true, since it is an instance
Outcome_ErrorIgnored(res, obj, path, name) ==
    IF res.k = "ForceValue" THEN Res(res.v, <<>>, <<>>, <<>>)
    ELSE IF res.k # "Error" /\ ~Truthy(res.v)
    THEN Res(obj, <<Diag3(path, "invalidated by " \o name, obj)>>, <<>>, <<>>)
    ELSE Res(obj, <<>>, <<>>, <<>>)

\* what sub makes of res, the object the call of exp returned
Outcome(res, obj, path, name) ==
    IF res.k = "ForceValue" THEN Res(res.v, <<>>, <<>>, <<>>)
    ELSE IF res.k = "Error" THEN Res(obj, <<Diag3(path, res.msg, obj)>>, <<>>, <<>>)
    ELSE IF ~Truthy(res.v) THEN Res(obj, <<Diag3(path, "invalidated by " \o name, obj)>>, <<>>, <<>>)
    ELSE Res(obj, <<>>, <<>>, <<>>)

\* a call of the check function f made by the call id of sub
Invocation(f, id, path, obj) == [f |-> f, id |-> id, path |-> path, obj |-> obj]

\* o, what sub makes of the result, together with the call made
Invoked(o, inv) == Res(o.obj, o.rep, <<>>, inv)

\* the try of lines 336 to 346, c being what the call of exp did
Called(c, obj, path, name, inv) ==
    IF c.raised
    THEN Res(obj, <<Diag2(path, name \o " call raised " \o c.e)>>, <<>>, inv)
    ELSE Invoked(Outcome(c.ret, obj, path, name), inv)

sub_func(obj, exp, path, id) ==
    LET info == funcInfo(exp) IN
    IF info.nb \notin {1, 2}
    THEN Res(obj, <<Diag2(path, info.name \o " should take 1 or 2 parameters")>>, <<>>, <<>>)
    ELSE Called(Call(exp, path, obj), obj, path, info.name, <<Invocation(exp.n, id, path, obj)>>)

sub_type(obj, exp, path, id) ==
    IF exp.s = "float" /\ obj.t = "int"
    THEN Res(FloatV(obj.n), <<>>, <<>>, <<>>)
    ELSE IF exp.s = "str"
    THEN IF obj.t # "str"
         THEN Res(obj, <<Diag3(path, "not a str", obj)>>, <<>>, <<>>)
         ELSE Res(obj, <<>>, <<>>, <<>>)
    ELSE IF exp.s # TypeName(obj)
    THEN Res(obj, <<Diag3(path, "not a " \o exp.s, obj)>>, <<>>, <<>>)
    ELSE Res(obj, <<>>, <<>>, <<>>)

\* the call of sub that returned r, put first among the calls made
Traced(r, obj, exp, path, id) ==
    Res(r.obj, r.rep, <<Entry(id, path, obj, exp, r.obj, r.rep)>> \o r.tr, r.inv)

sub(obj, exp, path, id) ==
    Traced(IF PyEq(obj, exp) THEN Res(obj, <<>>, <<>>, <<>>)
           ELSE IF (isOr(exp) \/ isAnd(exp)) /\ Len(exp.items) = 0
                THEN Res(obj, <<Diag2(path, "empty choice")>>, <<>>, <<>>)
           ELSE IF isOr(exp)     THEN sub_Or(obj, exp, path, id)
           ELSE IF isAnd(exp)    THEN sub_And(obj, exp, path, id)
           ELSE IF isList(exp)   THEN sub_list(obj, exp, path, id)
           ELSE IF isListOf(exp) THEN sub_ListOf(obj, exp, path, id)
           ELSE IF isDict(exp)   THEN sub_dict(obj, exp, path, id)
           ELSE IF isFunc(exp)   THEN sub_func(obj, exp, path, id)
           ELSE IF isType(exp)   THEN sub_type(obj, exp, path, id)
           ELSE Res(obj, <<Diag3(path, "!= " \o PyStr(exp), obj)>>, <<>>, <<>>),
           obj, exp, path, id)

\* set( report ) raises TypeError when an entry of report holds a value that
\* cannot be hashed; it is evaluated outside every try of validate.
SetRaises(rep) == \E i \in 1..Len(rep) : rep[i].n = 3 /\ ~Hashable(rep[i].val)

\* "return sub( given,expected,report,'' ),set( report )", r being what
\* the call of sub returned
Return(r) ==
    [output |-> r.obj, report |-> r.rep,
     raised |-> SetRaises(r.rep),
     errors |-> IF SetRaises(r.rep) THEN {} ELSE {r.rep[i] : i \in 1..Len(r.rep)},
     trace  |-> r.tr, invoked |-> r.inv]

\* validate( given,expected,ignore_extra_keys ), ignore_extra_keys being
\* the variable of that name
validate(g, e) == Return(sub(g, e, "", <<>>))

----------------------------------------------------------------------------
\* The data and the schemes validate is called with

Seqs(S, n) == UNION {[1..k -> S] : k \in 0..n}

T_int   == Type("int")
T_float == Type("float")
T_str   == Type("str")
T_bool  == Type("bool")
T_list  == Type("list")
T_tuple == Type("tuple")
T_None  == Type("NoneType")

Scalars ==
    {None_, BoolV(TRUE), BoolV(FALSE), FloatV(1), StrV("ab"), StrV(""),
     IntV(1889), IntV(1789), IntV(44)}
    \cup {IntV(i) : i \in -1..MaxInt}

Sequences_ ==
    {List(xs) : xs \in Seqs({IntV(i) : i \in 1..MaxInt}, MaxLen)}
    \cup {Tuple(xs) : xs \in Seqs({IntV(i) : i \in 1..MaxInt}, MaxLen)}
    \cup {SetOf(<<>>), SetOf(<<IntV(1)>>), SetOf(<<IntV(1), IntV(2)>>),
          List(<<IntV(1), StrV("ab")>>), List(<<IntV(1), FloatV(1)>>),
          List(<<Tuple(<<IntV(1)>>), Tuple(<<IntV(2)>>)>>),
          List(<<Dict(<<Key("a")>>, <<IntV(1)>>), Dict(<<Key("b")>>, <<IntV(1)>>)>>)}

FieldValues == {IntV(1), None_, StrV("ab")}

Child == {Dict(<<>>, <<>>), Dict(<<Key("age")>>, <<IntV(1)>>)}

Dicts ==
    {Dict(<<>>, <<>>)}
    \cup {Dict(<<Key(k)>>, <<v>>) : k \in {"a", "b"}, v \in FieldValues}
    \cup {Dict(<<Key("a"), Key("b")>>, <<v, w>>) : v, w \in FieldValues}
    \cup {Dict(<<Key("age")>>, <<v>>) : v \in {IntV(-1), IntV(1), None_}}
    \cup {Dict(<<Key("year")>>, <<v>>) : v \in {IntV(1889), IntV(2931)}}
    \cup {Dict(<<Key("a")>>, <<List(<<IntV(1)>>)>>)}
    \cup {Dict(<<Key("children")>>, <<List(cs)>>) : cs \in Seqs(Child, MaxLen)}

Givens == Scalars \cup Sequences_ \cup Dicts

child_scheme == Dict(<<Key("age")>>, <<Or(<<T_int, T_float>>)>>)

\* schemes without check function, Or or And
Leaves == {T_int, T_float, T_str, T_tuple, IntV(1)}

PlainSchemes ==
    {List(<<a, b>>) : a, b \in Leaves}
    \cup {ListOf(ListOf(a)) : a \in Leaves}
    \cup {Dict(<<Optional("a"), Key("b")>>, <<a, b>>) : a, b \in Leaves}

Schemes ==
    {T_int, T_float, T_str, T_bool, T_list, T_tuple, T_None}
    \cup PlainSchemes
    \cup {IntV(1), StrV("ab"), None_, FloatV(1), BoolV(TRUE)}
    \cup {Func(i) : i \in 1..Len(Funcs)}
    \cup {Or(<<>>), And(<<>>),
          Or(<<T_int>>), Or(<<T_int, T_float>>), Or(<<T_float, T_int>>),
          Or(<<T_int, T_str>>), Or(<<T_int, T_str, None_>>),
          Or(<<T_str, List(<<T_int>>)>>), Or(<<List(<<T_int>>), ListOf(T_int)>>),
          Or(<<T_list, List(<<T_int, T_int>>)>>),
          Or(<<Func(positive), None_>>), Or(<<Func(double), T_int>>),
          Or(<<T_int, Func(double)>>),
          Or(<<List(<<T_list, List(<<T_int>>)>>), List(<<List(<<T_int>>), T_tuple>>)>>),
          Or(<<Dict(<<Key("a")>>, <<T_int>>), Dict(<<Key("b")>>, <<T_int>>)>>)}
    \cup {And(<<T_int>>), And(<<T_int, T_float>>), And(<<T_float, T_int>>),
          And(<<T_int, Func(positive)>>), And(<<Func(positive), T_int>>),
          And(<<Func(double), Func(check_presence)>>),
          And(<<Func(check_presence), Func(double)>>),
          And(<<T_int, Func(double), Func(positive)>>),
          And(<<T_str, ListOf(T_str)>>), And(<<T_int, Func(check_year)>>),
          And(<<Or(<<T_int, T_float>>), Func(positive)>>),
          And(<<Dict(<<Key("a")>>, <<T_int>>), Dict(<<Key("a")>>, <<Func(positive)>>)>>)}
    \cup {List(<<T_int>>), List(<<T_int, T_int>>), List(<<T_int, T_float>>),
          List(<<T_int, T_str>>), List(<<T_int, T_int, T_int>>),
          Tuple(<<T_int, T_int>>), List(<<IntV(1), IntV(2)>>),
          List(<<Func(double), T_int>>)}
    \cup {ListOf(T_int), ListOf(T_float), ListOf(T_str), ListOf(Or(<<T_int, T_str>>)),
          ListOf(Func(double)), ListOf(Func(positive)),
          ListOf(Dict(<<Key("a")>>, <<T_int>>))}
    \cup {Dict(<<>>, <<>>), Dict(<<Key("a")>>, <<T_int>>),
          Dict(<<Key("a"), Key("b")>>, <<T_int, T_str>>),
          Dict(<<Key("a"), Optional("b")>>, <<T_int, T_str>>),
          Dict(<<Optional("a")>>, <<T_float>>),
          Dict(<<Key("a"), Optional("a")>>, <<T_int, T_float>>),
          Dict(<<Key("a")>>, <<IntV(1)>>),
          Dict(<<Key("a")>>, <<Func(double)>>),
          Dict(<<Key("a")>>, <<Or(<<T_int, None_>>)>>),
          Dict(<<Key("a")>>, <<List(<<T_int, T_int>>)>>),
          Dict(<<Key("age")>>, <<Func(check)>>),
          Dict(<<Key("year")>>, <<Func(check)>>),
          Dict(<<Key("age")>>, <<Func(positive)>>),
          Dict(<<Key("children")>>, <<ListOf(child_scheme)>>)}

----------------------------------------------------------------------------
\* The calls of validate

NoCall == [given |-> None_, output |-> None_, errors |-> {}]

Init ==
    /\ given \in Givens
    /\ expected \in Schemes
    /\ ignore_extra_keys \in BOOLEAN
    /\ pc = "start"
    /\ output = None_
    /\ errors = {}
    /\ raised = FALSE
    /\ report = <<>>
    /\ trace = <<>>
    /\ invoked = <<>>
    /\ prev = NoCall

\* the caller receives v from validate
Receive(v) ==
    /\ output' = v.output
    /\ errors' = v.errors
    /\ raised' = v.raised
    /\ report' = v.report
    /\ trace' = v.trace
    /\ invoked' = v.invoked

\* output,errors = validate( given,expected,ignore_extra_keys )
Validate ==
    /\ pc = "start"
    /\ Receive(validate(given, expected))
    /\ pc' = "done"
    /\ UNCHANGED <<given, expected, ignore_extra_keys, prev>>

\* output,errors = validate( output,expected,ignore_extra_keys ): the
\* caller validates what the first call returned against the same scheme
Revalidate ==
    /\ pc = "done"
    /\ ~raised
    /\ Receive(validate(output, expected))
    /\ given' = output
    /\ prev' = [given |-> given, output |-> output, errors |-> errors]
    /\ pc' = "again"
    /\ UNCHANGED <<expected, ignore_extra_keys>>

Next == Validate \/ Revalidate

Spec == Init /\ [][Next]_vars

----------------------------------------------------------------------------
\* The calls of sub and of check functions made by the latest validate

Calls == {trace[i] : i \in 1..Len(trace)}

HasCall(id) == \E c \in Calls : c.id = id

CallAt(id) == CHOOSE c \in Calls : c.id = id

\* the call went past "if obj == exp : return obj"
Dispatched(c) == ~PyEq(c.obj, c.exp)

IsPrefix(p, q) == Len(p) <= Len(q) /\ SubSeq(q, 1, Len(p)) = p

\* the nested calls of c, for its first n choices, elements or fields
Tried(c, n) == {j \in 1..n : HasCall(c.id \o <<j>>)}

\* nothing was evaluated below the j-th nested call of c
Untouched(c, j) ==
    /\ \A d \in Calls : ~IsPrefix(c.id \o <<j>>, d.id)
    /\ \A i \in 1..Len(invoked) : ~IsPrefix(c.id \o <<j>>, invoked[i].id)

Count(rep, d) == Cardinality({i \in 1..Len(rep) : rep[i] = d})

----------------------------------------------------------------------------
\* C1: validate never raises: whatever the value, the scheme and the
\* extra-keys policy, a call that has returned has returned a pair, every
\* fault having become an entry of the set of errors.
C1_NeverRaises == pc # "start" => ~raised

\* C2: an Or with at least one choice tries its choices in order, each on
\* the object and path of the Or and with a report of its own; it stops at
\* the first choice that reports nothing, then reports nothing itself and
\* returns what that choice returned; when every choice reports something
\* it reports exactly what the last choice reported.
C2_OrLastFailure ==
    \A c \in Calls : (isOr(c.exp) /\ Len(c.exp.items) >= 1 /\ Dispatched(c)) =>
        LET n == Len(c.exp.items)
            k == Cardinality(Tried(c, n))
            choice(j) == CallAt(c.id \o <<j>>)
        IN  /\ k >= 1
            /\ Tried(c, n) = 1..k
            /\ \A j \in 1..k : /\ choice(j).obj = c.obj
                               /\ choice(j).path = c.path
                               /\ choice(j).exp = c.exp.items[j]
            /\ \A j \in 1..(k - 1) : choice(j).rep # <<>>
            /\ \A j \in (k + 1)..n : Untouched(c, j)
            /\ IF choice(k).rep = <<>>
               THEN c.rep = <<>> /\ c.out = choice(k).out
               ELSE k = n /\ c.rep = choice(n).rep /\ c.out = c.obj

\* an Or whose choices all failed, the first with another report than the last
C2_Witness ==
    \E c \in Calls :
        /\ isOr(c.exp) /\ Len(c.exp.items) >= 2
        /\ c.rep # <<>>
        /\ CallAt(c.id \o <<1>>).rep # c.rep

\* C3: an And with at least one choice evaluates its choices in order and
\* stops at the first choice that reports something: it then reports exactly
\* what that choice reported, and nothing of the later choices is evaluated,
\* no check function in them is called.
C3_AndFirstFailure ==
    /\ \A i \in 1..Len(invoked) :
          /\ HasCall(invoked[i].id)
          /\ CallAt(invoked[i].id).exp = Func(invoked[i].f)
    /\ \A c \in Calls : (isAnd(c.exp) /\ Len(c.exp.items) >= 1 /\ Dispatched(c)) =>
        LET n == Len(c.exp.items)
            k == Cardinality(Tried(c, n))
            choice(j) == CallAt(c.id \o <<j>>)
        IN  /\ k >= 1
            /\ Tried(c, n) = 1..k
            /\ \A j \in 1..k : choice(j).exp = c.exp.items[j] /\ choice(j).path = c.path
            /\ \A j \in 1..(k - 1) : choice(j).rep = <<>>
            /\ \A j \in (k + 1)..n : Untouched(c, j)
            /\ IF choice(k).rep # <<>>
               THEN c.rep = choice(k).rep
               ELSE k = n /\ c.rep = <<>>

\* an And whose first choice failed, the second being a check function that
\* would have been called
C3_Witness ==
    \E c \in Calls :
        /\ isAnd(c.exp) /\ Len(c.exp.items) >= 2
        /\ isFunc(c.exp.items[2]) /\ funcInfo(c.exp.items[2]).nb = 1
        /\ CallAt(c.id \o <<1>>).rep # <<>>
        /\ c.rep # <<>>
        /\ invoked = <<>>

\* the keys a mapping scheme names, bare or Optional
SchemaKeys(exp) == {exp.keys[i].k : i \in 1..Len(exp.keys)}

DataKeys(obj) == {obj.keys[i].k : i \in 1..Len(obj.keys)}

\* C4: a mapping scheme matched against a mapping, wherever it stands,
\* returns a mapping that holds the schema keys the input holds, no key the
\* input lacks, and an extra key of the input only under policy "allow",
\* with the very value of the input; under policy "reject" every extra key
\* gives one (path, 'extra key', key) and is left out.
C4_MappingOutput ==
    \A c \in Calls : (isDict(c.exp) /\ isDict(c.obj)) =>
        /\ isDict(c.out)
        /\ \A i \in 1..Len(c.out.keys) : ~c.out.keys[i].opt
        /\ Cardinality(DataKeys(c.out)) = Len(c.out.keys)
        /\ DataKeys(c.out) =
              {k \in DataKeys(c.obj) : k \in SchemaKeys(c.exp) \/ ignore_extra_keys}
        /\ \A k \in DataKeys(c.obj) \ SchemaKeys(c.exp) :
              /\ ignore_extra_keys => GetItem(c.out, k) = GetItem(c.obj, k)
              /\ Count(c.rep, Diag3(c.path, "extra key", StrV(k)))
                    = IF ignore_extra_keys THEN 0 ELSE 1

\* under policy "reject", a mapping inside a sequence with an extra key
C4_Witness ==
    \E c \in Calls :
        /\ isDict(c.exp) /\ isDict(c.obj) /\ c.id # <<>>
        /\ ~ignore_extra_keys
        /\ DataKeys(c.obj) \ SchemaKeys(c.exp) # {}
        /\ DataKeys(c.obj) \cap SchemaKeys(c.exp) # {}

\* the text of '[%d]' for the first indexes, written out
Bracketed ==
    <<"[0]", "[1]", "[2]", "[3]", "[4]", "[5]", "[6]", "[7]", "[8]", "[9]", "[10]", "[11]">>

\* the path of the j-th nested call of a call of path p on the scheme exp:
\* p for a choice, p + '[j-1]' for an element, p + '.key' for a field
PathBelow(p, exp, j) ==
    IF isOr(exp) \/ isAnd(exp) THEN p
    ELSE IF isDict(exp) THEN p \o "." \o exp.keys[j].k
    ELSE p \o Bracketed[j]

\* C5: the path is '' at the root and grows by '.key' at each mapping
\* descent and by '[i]' at each sequence descent; a mapping scheme reached
\* at path p reports each absent mandatory key as exactly (p, 'not found',
\* key), reports nothing for an absent Optional key, and matches a present
\* field k at p + '.' + k, where everything that field reports is located.
C5_Paths ==
    /\ \A c \in Calls :
          IF c.id = <<>> THEN c.path = ""
          ELSE LET up == CallAt(SubSeq(c.id, 1, Len(c.id) - 1)) IN
               c.path = PathBelow(up.path, up.exp, c.id[Len(c.id)])
    /\ \A c \in Calls : \A i \in 1..Len(c.rep) : IsPrefix(c.path, c.rep[i].path)
    /\ \A c \in Calls : (isDict(c.exp) /\ isDict(c.obj) /\ Dispatched(c)) =>
          \A j \in 1..Len(c.exp.keys) :
              LET k == c.exp.keys[j].k IN
              IF HasKey(c.obj, k)
              THEN /\ HasCall(c.id \o <<j>>)
                   /\ CallAt(c.id \o <<j>>).path = c.path \o "." \o k
                   /\ CallAt(c.id \o <<j>>).obj = GetItem(c.obj, k)
                   /\ CallAt(c.id \o <<j>>).exp = c.exp.items[j]
                   /\ \A i \in 1..Len(CallAt(c.id \o <<j>>).rep) :
                         Count(c.rep, CallAt(c.id \o <<j>>).rep[i]) >= 1
                   /\ \A i \in 1..Len(c.rep) :
                         ~(c.rep[i].path = c.path /\ c.rep[i].msg = "not found"
                           /\ c.rep[i].val = StrV(k))
              ELSE /\ ~HasCall(c.id \o <<j>>)
                   /\ \A i \in 1..Len(c.rep) :
                         ~(c.rep[i].msg = "not found" /\ c.rep[i].path = c.path \o "." \o k)
                   /\ Count(c.rep, Diag3(c.path, "not found", StrV(k)))
                         = IF \E h \in 1..Len(c.exp.keys) :
                                  c.exp.keys[h].k = k /\ ~c.exp.keys[h].opt
                           THEN 1 ELSE 0

\* the third child lacks 'age': reported at '.children[2]'
C5_Witness ==
    /\ pc = "done"
    /\ Diag3(".children[2]", "not found", StrV("age")) \in errors

\* the scheme holds no check function, no Or and no And, and no mapping in
\* it names a key twice
RECURSIVE PlainScheme(_)
PlainScheme(exp) ==
    /\ exp.t \notin {"func", "Or", "And"}
    /\ Cardinality(SchemaKeys(exp)) = Len(exp.keys)
    /\ \A i \in 1..Len(exp.items) : PlainScheme(exp.items[i])

\* C6 as stated: validating the output of a validation that reported nothing
\* reports nothing and returns an equal output, whatever the scheme.
C6_Idempotent ==
    (pc = "again" /\ prev.errors = {}) =>
        (~raised /\ errors = {} /\ PyEq(output, prev.output))

\* C6 as amended: the same, for the schemes that hold no check function, no
\* Or and no And, and whose mappings name each key once.
C6_IdempotentPlain ==
    (pc = "again" /\ prev.errors = {} /\ PlainScheme(expected)) =>
        (~raised /\ errors = {} /\ PyEq(output, prev.output))

\* a plain scheme whose first validation changed the value and reported
\* nothing, validated again
C6_Witness ==
    /\ pc = "again" /\ prev.errors = {} /\ PlainScheme(expected)
    /\ prev.output # prev.given
    /\ Len(trace) > 1

\* the scheme holds no check function and no float type
RECURSIVE NoFuncNoFloat(_)
NoFuncNoFloat(exp) ==
    /\ exp.t # "func"
    /\ ~(exp.t = "type" /\ exp.s = "float")
    /\ \A i \in 1..Len(exp.items) : NoFuncNoFloat(exp.items[i])

\* C7: identity on match: a validation that reports nothing, against a
\* scheme without check function and without float type, returns an output
\* equal to the value it was given, whatever the kind of its containers.
C7_IdentityOnMatch ==
    (pc = "done" /\ ~raised /\ errors = {} /\ NoFuncNoFloat(expected)) =>
        PyEq(output, given)

\* C8: a check function of 1 or 2 parameters is called once, and when the
\* call returns the result decides alone: ForceValue(v2) reports nothing and
\* returns v2; Error(msg) reports exactly (p, msg, x) and returns x; another
\* true result reports nothing and returns x; another false result reports
\* exactly (p, 'invalidated by <name>', x) and returns x.  A function of
\* another arity is not called and reports the pair (p, '<name> should take
\* 1 or 2 parameters').
C8_PredicateOutcome ==
    \A c \in Calls : (isFunc(c.exp) /\ Dispatched(c)) =>
        LET name  == Funcs[c.exp.n].name
            calls == {i \in 1..Len(invoked) : invoked[i].id = c.id}
            r     == Call(c.exp, c.path, c.obj)
        IN  IF Funcs[c.exp.n].nb \in {1, 2}
            THEN /\ Cardinality(calls) = 1
                 /\ \A i \in calls : /\ invoked[i].f = c.exp.n
                                     /\ invoked[i].path = c.path
                                     /\ invoked[i].obj = c.obj
                 /\ ~r.raised =>
                      CASE r.ret.k = "ForceValue" -> c.rep = <<>> /\ c.out = r.ret.v
                        [] r.ret.k = "Error" ->
                              /\ c.rep = <<[path |-> c.path, msg |-> r.ret.msg, n |-> 3, val |-> c.obj]>>
                              /\ c.out = c.obj
                        [] OTHER ->
                              /\ c.out = c.obj
                              /\ c.rep = IF Truthy(r.ret.v) THEN <<>>
                                         ELSE <<[path |-> c.path,
                                                 msg |-> "invalidated by " \o name,
                                                 n |-> 3, val |-> c.obj]>>
            ELSE /\ calls = {}
                 /\ c.out = c.obj
                 /\ c.rep = <<[path |-> c.path,
                               msg |-> name \o " should take 1 or 2 parameters",
                               n |-> 2, val |-> None_]>>

\* below the root, a check function that returned an Error
C8_Witness ==
    \E c \in Calls :
        /\ isFunc(c.exp) /\ c.path # ""
        /\ ~Call(c.exp, c.path, c.obj).raised
        /\ Call(c.exp, c.path, c.obj).ret.k = "Error"
        /\ Len(c.rep) = 1

\* C9: in an And none of whose choices fails, the first choice is matched
\* against the value given to the And, each next choice against the value
\* the choice before it returned, and the And returns what the last choice
\* returned.
C9_AndChains ==
    \A c \in Calls : (isAnd(c.exp) /\ Len(c.exp.items) >= 1 /\ Dispatched(c) /\ c.rep = <<>>) =>
        LET n == Len(c.exp.items)
            choice(j) == CallAt(c.id \o <<j>>)
        IN  /\ \A j \in 1..n : HasCall(c.id \o <<j>>)
            /\ choice(1).obj = c.obj
            /\ \A j \in 1..(n - 1) : choice(j + 1).obj = choice(j).out
            /\ c.out = choice(n).out

\* C10: a sequence scheme or a ListOf matched against a value that is not a
\* sequence reports exactly (path, 'array expected', value), matches no
\* element and returns the value; a ListOf matched against a sequence
\* matches every element against its one descriptor at path + '[i]'.
C10_ArrayExpected ==
    \A c \in Calls : ((isList(c.exp) \/ isListOf(c.exp)) /\ Dispatched(c)) =>
        IF ~isList(c.obj)
        THEN /\ c.rep = <<Diag3(c.path, "array expected", c.obj)>>
             /\ \A d \in Calls : d.id = c.id \/ ~IsPrefix(c.id, d.id)
             /\ c.out = c.obj
        ELSE isListOf(c.exp) =>
                \A j \in 1..Len(c.obj.items) :
                    /\ HasCall(c.id \o <<j>>)
                    /\ CallAt(c.id \o <<j>>).obj = c.obj.items[j]
                    /\ CallAt(c.id \o <<j>>).exp = c.exp.items[1]
                    /\ CallAt(c.id \o <<j>>).path = c.path \o Bracketed[j]

====
